---- MODULE Spec2Model ----
(***************************************************************************)
(* The schema cross-validator (package main of src/unnamed/part_000): the  *)
(* struct definitions of the source are matched, field by field, against   *)
(* the operations of a listApis document.                                  *)
(*                                                                         *)
(* Strings are TLA+ strings.  A Go type signature (types.Type.String()) is *)
(* a sequence of tokens, <<"[]", "string">> for []string, so that          *)
(* strings.HasPrefix is computed and not assumed.  A struct tag is the     *)
(* record [json, doc]: json is the comma-separated content of the json     *)
(* key (<<>> when the key is absent), doc the content of the doc key.      *)
(***************************************************************************)
EXTENDS Integers, Sequences, FiniteSets, TLC

VARIABLES
    argCmd,     \* the -cmd argument as given on the command line
    cmd,        \* *cmd, the flag variable (reassigned at line 106)
    rtype,      \* *rtype
    apis,       \* apis.API, the decoded listApis document
    commands,   \* commands: lower-cased name -> [name, s] (lines 78-95)
    loaded,     \* the document was decoded and the package type-checked
    fields,     \* command.fields of every command
    errors,     \* command.errors of every command
    made,       \* the commands whose fields/errors maps are not nil
    sync,       \* command.sync of every command
    pc,         \* position in main
    ai,         \* index of the range loop of line 100
    cur,        \* name, the key of the command of the current iteration
    params,     \* params of the current iteration (lines 102, 107)
    pi,         \* index of the range loop of line 152
    out,        \* the lines printed on stdout
    exitCode    \* the value given to os.Exit, 0 when main returns, -1 before

vars == <<argCmd, cmd, rtype, apis, commands, loaded, fields, errors, made,
          sync, pc, ai, cur, params, pi, out, exitCode>>

(***************************************************************************)
(* Bounds                                                                  *)
(***************************************************************************)
MaxApis == 2
MaxFields == 2
MaxParams == 2

(***************************************************************************)
(* Library functions                                                       *)
(***************************************************************************)
\* strings.ToLower, on the names this model uses
ToLower(s) ==
    CASE s = "Foo" -> "foo"
      [] s = "FOO" -> "foo"
      [] s = "Bar" -> "bar"
      [] OTHER     -> s

\* strings.HasPrefix on token sequences
HasPrefix(s, prefix) ==
    /\ Len(s) >= Len(prefix)
    /\ SubSeq(s, 1, Len(prefix)) = prefix

\* types.Var.Exported: the identifier starts with an upper-case letter
Exported(goName) == goName \in {"Zone", "Size", "Name"}

\* delete(m, k)
Delete(m, k) == [x \in DOMAIN m \ {k} |-> m[x]]

\* m[k] = v
Store(m, k, v) == (k :> v) @@ m

\* len(m)
MapLen(m) == Cardinality(DOMAIN m)

(***************************************************************************)
(* The findings: the values of command.errors.  Each fmt.Errorf of main is *)
(* one record kind, with the values its message is formatted from.         *)
(***************************************************************************)
\* line 133: "Field error: no json annotation found"
ErrNoJSON == [kind |-> "MissingSerializedName"]

\* line 165: "missing field: ..."
ErrMissingField(p) == [kind |-> "MissingField", spec |-> p]

\* line 174: "missing doc: ..."
ErrMissingDoc(p) == [kind |-> "DocumentationMissing", want |-> p.description]

\* line 176: "wrong doc want %q got %q"
ErrWrongDoc(p, field) ==
    [kind |-> "DocumentationMismatch", want |-> p.description, got |-> field.Doc]

\* line 181: "wrong omitempty, want ..."
ErrOmitEmpty(p) ==
    [kind |-> "OptionalityMismatch", required |-> p.required,
     wantTag |-> <<p.name, IF ~p.required THEN ",omitempty" ELSE "">>]

\* line 220: "Unknown type %q <=> %q"
ErrUnknownType(p, field) ==
    [kind |-> "UnknownSpecCategory", raw |-> p.type, actual |-> field.Var.type]

\* line 224: "Expected to be a %s, got %q"
ErrExpected(expected, typename) ==
    [kind |-> "TypeMismatch", expected |-> expected, actual |-> typename]

\* line 229: "Extra field found"
ErrExtra == [kind |-> "ExtraField"]

(***************************************************************************)
(* Lines 97-98 and 123-150: the fields of a struct, from its tags          *)
(***************************************************************************)
\* re.FindStringSubmatch(tag): <<>> when `json:"name"` or
\* `json:"name,omitempty"` is not found, else <<whole, name, omit>>.  The name
\* is [^,"]+, so it is not empty, and nothing but ,omitempty may follow it.
ReJSON(tag) ==
    IF /\ Len(tag.json) \in {1, 2}
       /\ tag.json[1] # ""
       /\ Len(tag.json) = 2 => tag.json[2] = "omitempty"
    THEN <<"json", tag.json[1], IF Len(tag.json) = 2 THEN ",omitempty" ELSE "">>
    ELSE <<>>

\* reDoc.FindStringSubmatch(tag): <<>> when `doc:"..."` with a content of at
\* least one character is not found, else <<whole, doc>>
ReDoc(tag) == IF tag.doc # "" THEN <<"doc", tag.doc>> ELSE <<>>

\* the map is kept from one operation to the next
KeepErrors(prev) == prev

\* make(map[string]error), line 117; prev is the map the command had
FreshErrors(prev) == <<>>

\* make(map[string]fieldInfo), line 116
FreshFields(prev) == <<>>

\* lines 136-149: the fieldInfo of a field whose json tag matched
FieldInfoOf(f, match) ==
    LET docMatch == ReDoc(f.tag)
    IN  [Var       |-> f,
         OmitEmpty |-> (Len(match) = 3 /\ match[3] = ",omitempty"),
         Doc       |-> IF Len(docMatch) = 2 THEN docMatch[2] ELSE ""]

\* lines 123-150, from field i on; st = [fields, errors]
RECURSIVE ScanFields(_, _, _)
ScanFields(s, i, st) ==
    IF i > Len(s) THEN st
    ELSE LET f     == s[i]
             match == ReJSON(f.tag)
         IN  IF ~Exported(f.name) THEN ScanFields(s, i + 1, st)
             ELSE IF Len(match) = 0
             THEN ScanFields(s, i + 1,
                     [st EXCEPT !.errors = Store(@, f.name, ErrNoJSON)])
             ELSE ScanFields(s, i + 1,
                     [st EXCEPT !.fields = Store(@, match[2], FieldInfoOf(f, match))])

(***************************************************************************)
(* Lines 152-226: one parameter against the fields                         *)
(***************************************************************************)
\* the Doc == "" branch is missing
CheckDocAlwaysWrong(errs, p, field) ==
    IF field.Doc # p.description
    THEN Store(errs, p.name, ErrWrongDoc(p, field))
    ELSE errs

\* lines 172-178
CheckDoc(errs, p, field) ==
    IF field.Doc # p.description
    THEN IF field.Doc = ""
         THEN Store(errs, p.name, ErrMissingDoc(p))
         ELSE Store(errs, p.name, ErrWrongDoc(p, field))
    ELSE errs

\* the comparison is inverted
WrongOmitEmptyInverted(p, field) == p.required # field.OmitEmpty

\* line 180
WrongOmitEmpty(p, field) == p.required = field.OmitEmpty

\* the cases of the switch of line 186
KnownTypes ==
    {"short", "integer", "long", "boolean", "string", "uuid", "date",
     "tzdate", "list", "map", "set"}

\* the empty cases fall through to the next one that has a body
ExpectedFallthrough(ptype, typename) ==
    CASE ptype = "short"   -> IF typename # <<"int16">> THEN "int16" ELSE ""
      [] ptype = "integer" -> IF typename # <<"int">> THEN "int" ELSE ""
      [] ptype = "long"    -> IF typename # <<"int64">> THEN "int64" ELSE ""
      [] ptype = "boolean" -> IF typename # <<"bool">> /\ typename # <<"*", "bool">>
                              THEN "bool" ELSE ""
      [] ptype \in {"string", "uuid", "date", "tzdate"} ->
                              IF typename # <<"string">> THEN "string" ELSE ""
      [] ptype = "list"    -> IF ~HasPrefix(typename, <<"[]">>) THEN "[]string" ELSE ""
      [] ptype \in {"map", "set"} ->
                              IF ~HasPrefix(typename, <<"[]">>) THEN "array" ELSE ""
      [] OTHER             -> ""

\* lines 185-218: expected, "" when the type is accepted (a Go case does not
\* fall through: string, uuid, date and map have empty bodies)
Expected(ptype, typename) ==
    CASE ptype = "short"   -> IF typename # <<"int16">> THEN "int16" ELSE ""
      [] ptype = "integer" -> IF typename # <<"int">> THEN "int" ELSE ""
      [] ptype = "long"    -> IF typename # <<"int64">> THEN "int64" ELSE ""
      [] ptype = "boolean" -> IF typename # <<"bool">> /\ typename # <<"*", "bool">>
                              THEN "bool" ELSE ""
      [] ptype = "string"  -> ""
      [] ptype = "uuid"    -> ""
      [] ptype = "date"    -> ""
      [] ptype = "tzdate"  -> IF typename # <<"string">> THEN "string" ELSE ""
      [] ptype = "list"    -> IF ~HasPrefix(typename, <<"[]">>) THEN "[]string" ELSE ""
      [] ptype = "map"     -> ""
      [] ptype = "set"     -> IF ~HasPrefix(typename, <<"[]">>) THEN "array" ELSE ""
      [] OTHER             -> ""

\* the switch has no default case
CheckUnknownSkipped(errs, p, field) == errs

\* lines 219-221: the default case
CheckUnknown(errs, p, field) ==
    IF p.type \notin KnownTypes
    THEN Store(errs, p.name, ErrUnknownType(p, field))
    ELSE errs

\* lines 223-225
CheckExpected(errs, p, field) ==
    LET typename == field.Var.type
        expected == Expected(p.type, typename)
    IN  IF expected # ""
        THEN Store(errs, p.name, ErrExpected(expected, typename))
        ELSE errs

\* the field is not deleted
ConsumeNothing(flds, name) == flds

\* line 168
Consume(flds, name) == Delete(flds, name)

\* lines 153-225, one iteration of the loop over params; st = [fields, errors]
MatchParam(st, p) ==
    IF p.name \notin DOMAIN st.fields
    THEN [st EXCEPT !.errors = Store(@, p.name, ErrMissingField(p))]
    ELSE LET field == st.fields[p.name]
             rest  == Consume(st.fields, p.name)
             e1    == CheckDoc(st.errors, p, field)
         IN  IF WrongOmitEmpty(p, field)
             THEN [fields |-> rest, errors |-> Store(e1, p.name, ErrOmitEmpty(p))]
             ELSE [fields |-> rest,
                   errors |-> CheckExpected(CheckUnknown(e1, p, field), p, field)]

\* lines 228-230
ExtraFields(st) ==
    [st EXCEPT !.errors =
        [k \in DOMAIN st.errors \cup DOMAIN st.fields |->
            IF k \in DOMAIN st.fields THEN ErrExtra ELSE st.errors[k]]]

\* lines 152-226, from parameter i on
RECURSIVE MatchFrom(_, _, _)
MatchFrom(st, ps, i) ==
    IF i > Len(ps) THEN st ELSE MatchFrom(MatchParam(st, ps[i]), ps, i + 1)

\* lines 116-230: the errors of one struct against one parameter list
RunMatcher(s, ps) ==
    ExtraFields(MatchFrom(
        ScanFields(s, 1, [fields |-> FreshFields(<<>>), errors |-> FreshErrors(<<>>)]),
        ps, 1)).errors

(***************************************************************************)
(* The inputs: the structs of the package and the listApis document        *)
(***************************************************************************)
Field(goName, json, doc, type) ==
    [name |-> goName, tag |-> [json |-> json, doc |-> doc], type |-> type]

Param(name, type, required, description) ==
    [name |-> name, type |-> type, required |-> required,
     description |-> description]

Api(name, isAsync, ps, response) ==
    [name |-> name, isAsync |-> isAsync, params |-> ps, response |-> response]

\* declaration order of the field names within a struct
Rank(goName) ==
    CASE goName = "Zone" -> 1 [] goName = "Size" -> 2
      [] goName = "Name" -> 3 [] OTHER -> 4

\* the sequences over S of length at most n
SeqsUpTo(S, n) == UNION {[1..k -> S] : k \in 0..n}

\* a struct declares each field name once
Structs(pool, n) ==
    {s \in SeqsUpTo(pool, n) :
        \A i \in 1..Len(s) - 1 : Rank(s[i].name) < Rank(s[i + 1].name)}

PZone == Param("zone", "string", FALSE, "")
PSize == Param("size", "long", FALSE, "")
PZoneCap == Param("Zone", "string", FALSE, "")

FZone == Field("Zone", <<"zone", "omitempty">>, "", <<"string">>)
FSize == Field("Size", <<"size", "omitempty">>, "", <<"int64">>)
FName == Field("Name", <<"name", "omitempty">>, "", <<"string">>)
FZoneNoTag == Field("Zone", <<>>, "", <<"string">>)
FSizeNoTag == Field("Size", <<>>, "", <<"int64">>)

\* Program level: few structs and parameter lists, several operations
ProgStructsFoo == {<<FZone>>, <<FZoneNoTag>>, <<FZone, FSizeNoTag>>}
ProgStructsBar == {<<FZone>>, <<FSizeNoTag>>}
ProgParamLists == {<<>>, <<PZone>>, <<PZone, PSize>>}
ProgResponses == {<<>>, <<PZone>>}
ProgApis ==
    {Api(n, n = "bar", ps, rs) :
        n \in {"Foo", "bar"}, ps \in ProgParamLists, rs \in ProgResponses}

ProgCommands ==
    {f @@ b :
        f \in {<<>>} \cup {("foo" :> [name |-> "Foo", s |-> s]) : s \in ProgStructsFoo},
        b \in {<<>>} \cup {("bar" :> [name |-> "Bar", s |-> s]) : s \in ProgStructsBar}}

\* Matcher level, names: one struct, one operation, every way a field name,
\* a serialized name and a parameter name can meet
PlainFields ==
    {FZoneNoTag, FSizeNoTag,
     Field("Zone", <<"zone">>, "", <<"string">>),
     FZone,
     Field("Size", <<"size">>, "", <<"int64">>),
     Field("Size", <<"Zone">>, "", <<"int64">>),
     Field("Size", <<"zone", "omitempty">>, "", <<"int64">>),
     Field("Size", <<"size", "string">>, "", <<"int64">>),
     Field("priv", <<"priv">>, "", <<"string">>)}
PlainParams == {PZone, PSize, PZoneCap}

\* Matcher level, one pair: a field and a parameter of the same name, with
\* every documentation, optionality, category and signature
Signatures ==
    {<<"int16">>, <<"int">>, <<"int64">>, <<"bool">>, <<"*", "bool">>,
     <<"string">>, <<"[]", "string">>, <<"map[string]string">>}
Categories == KnownTypes \cup {"weirdtype"}
PairFields ==
    {Field("Zone", j, d, ty) :
        j \in {<<"zone">>, <<"zone", "omitempty">>},
        d \in {"", "Zone name", "The zone"}, ty \in Signatures}
PairParams ==
    {Param("zone", c, r, d) :
        c \in Categories, r \in BOOLEAN, d \in {"", "Zone name"}}

(***************************************************************************)
(* main                                                                    *)
(***************************************************************************)
\* the state of main once the flags are parsed
InitWith(c, t, a, cs) ==
    /\ argCmd = c
    /\ cmd = c
    /\ rtype = t
    /\ apis = a
    /\ commands = cs
    /\ loaded = FALSE
    /\ fields = [k \in DOMAIN cs |-> <<>>]
    /\ errors = [k \in DOMAIN cs |-> <<>>]
    /\ made = {}
    /\ sync = [k \in DOMAIN cs |-> ""]
    /\ pc = "load"
    /\ ai = 1
    /\ cur = ""
    /\ params = <<>>
    /\ pi = 1
    /\ out = {}
    /\ exitCode = -1

\* -type is documented "need cmd" (line 22)
Init ==
    \E c \in {"", "FOO", "bar", "baz"}, t \in {"", "Bar"},
       a \in SeqsUpTo(ProgApis, MaxApis), cs \in ProgCommands :
        /\ t # "" => c # ""
        /\ InitWith(c, t, a, cs)

InitNames ==
    \E s \in Structs(PlainFields, MaxFields),
       ps \in SeqsUpTo(PlainParams, MaxParams) :
        InitWith("Foo", "", <<Api("foo", FALSE, ps, <<>>)>>,
                 ("foo" :> [name |-> "Foo", s |-> s]))

InitPair ==
    \E f \in PairFields, p \in PairParams,
       fs \in Structs({FSize, FName}, MaxFields - 1),
       ps \in SeqsUpTo({PZone, PSize}, MaxParams - 1) :
        InitWith("Foo", "", <<Api("foo", FALSE, <<p>> \o ps, <<>>)>>,
                 ("foo" :> [name |-> "Foo", s |-> <<f>> \o fs]))

InitMatch == InitNames \/ InitPair

\* where main goes once iteration i of the loop of line 100 is reached
LoopPc(i) == IF i > Len(apis) THEN "report" ELSE "apis"

\* lines 44-76: a document that does not decode, a file that does not parse
\* or a package that does not type-check ends the run with status 1
Load ==
    /\ pc = "load"
    /\ \E ok \in BOOLEAN :
        /\ loaded' = ok
        /\ pc' = IF ok THEN LoopPc(1) ELSE "done"
        /\ exitCode' = IF ok THEN exitCode ELSE 1
    /\ UNCHANGED <<argCmd, cmd, rtype, apis, commands, fields, errors, made,
                   sync, ai, cur, params, pi, out>>

\* line 104
Redirected(c, t, name) == ToLower(c) = name /\ t # ""

\* lines 100-150: the head of one iteration over apis.API, up to the scan of
\* the struct's fields
ApiStep ==
    /\ pc = "apis"
    /\ LET a        == apis[ai]
           redirect == Redirected(cmd, rtype, ToLower(a.name))
           name     == IF redirect THEN ToLower(rtype) ELSE ToLower(a.name)
       IN  /\ cmd' = IF redirect THEN name ELSE cmd
           /\ params' = IF redirect THEN a.response ELSE a.params
           /\ cur' = name
           /\ pi' = 1
           /\ IF name \notin DOMAIN commands
              THEN /\ ai' = ai + 1
                   /\ pc' = LoopPc(ai + 1)
                   /\ UNCHANGED <<fields, errors, made, sync>>
              ELSE LET st == ScanFields(commands[name].s, 1,
                                 [fields |-> FreshFields(fields[name]),
                                  errors |-> FreshErrors(errors[name])])
                   IN  /\ fields' = [fields EXCEPT ![name] = st.fields]
                       /\ errors' = [errors EXCEPT ![name] = st.errors]
                       /\ made' = made \cup {name}
                       /\ sync' = IF a.isAsync
                                  THEN [sync EXCEPT ![name] = " (A)"]
                                  ELSE sync
                       /\ ai' = ai
                       /\ pc' = "params"
    /\ UNCHANGED <<argCmd, rtype, apis, commands, loaded, out, exitCode>>

\* lines 152-226: one parameter
ParamStep ==
    /\ pc = "params"
    /\ pi <= Len(params)
    /\ LET st == MatchParam([fields |-> fields[cur], errors |-> errors[cur]],
                            params[pi])
       IN  /\ fields' = [fields EXCEPT ![cur] = st.fields]
           /\ errors' = [errors EXCEPT ![cur] = st.errors]
    /\ pi' = pi + 1
    /\ UNCHANGED <<argCmd, cmd, rtype, apis, commands, loaded, made, sync, pc,
                   ai, cur, params, out, exitCode>>

\* lines 228-230: the fields left over, and on to the next operation
ExtraStep ==
    /\ pc = "params"
    /\ pi > Len(params)
    /\ errors' = [errors EXCEPT ![cur] =
                    ExtraFields([fields |-> fields[cur], errors |-> @]).errors]
    /\ ai' = ai + 1
    /\ pc' = LoopPc(ai + 1)
    /\ UNCHANGED <<argCmd, cmd, rtype, apis, commands, loaded, fields, made,
                   sync, cur, params, pi, out, exitCode>>

\* detail mode exits 1 on any error
ReportExitFlag(c, cmds, errs) ==
    IF c = "" THEN 0
    ELSE IF ToLower(c) \in DOMAIN cmds
    THEN IF MapLen(errs[ToLower(c)]) > 0 THEN 1 ELSE 0
    ELSE 1

\* summary mode exits with the number of structs that have errors
ReportExitCount(c, cmds, errs) ==
    IF c = "" THEN Cardinality({k \in DOMAIN cmds : MapLen(errs[k]) # 0})
    ELSE IF ToLower(c) \in DOMAIN cmds THEN MapLen(errs[ToLower(c)])
    ELSE 1

\* lines 234-254: the status of the process; 0 is main returning
ReportExit(c, cmds, errs) ==
    IF c = "" THEN 0
    ELSE IF ToLower(c) \in DOMAIN cmds THEN MapLen(errs[ToLower(c)])
    ELSE 1

NoErr == [kind |-> "none"]

Line(kind, name, marker, er, key, err) ==
    [line |-> kind, name |-> name, sync |-> marker, er |-> er, key |-> key,
     err |-> err]

\* lines 234-254: what is printed (the order of a range over a map is not
\* determined: the lines are a set)
ReportLines(c, cmds, errs, marks) ==
    IF c = ""
    THEN {Line("summary", cmds[n].name, marks[n], MapLen(errs[n]), "", NoErr) :
            n \in {k \in DOMAIN cmds : MapLen(errs[k]) # 0}}
    ELSE IF ToLower(c) \in DOMAIN cmds
    THEN LET n == ToLower(c)
         IN  {Line("error", "", "", 0, k, errs[n][k]) : k \in DOMAIN errs[n]}
             \cup {Line("trailer", cmds[n].name, marks[n], MapLen(errs[n]), "", NoErr)}
    ELSE {Line("not found", c, "", 0, "", NoErr)}

Report ==
    /\ pc = "report"
    /\ out' = ReportLines(cmd, commands, errors, sync)
    /\ exitCode' = ReportExit(cmd, commands, errors)
    /\ pc' = "done"
    /\ UNCHANGED <<argCmd, cmd, rtype, apis, commands, loaded, fields, errors,
                   made, sync, ai, cur, params, pi>>

Next == Load \/ ApiStep \/ ParamStep \/ ExtraStep \/ Report

Spec == Init /\ [][Next]_vars

SpecMatch == InitMatch /\ [][Next]_vars

(***************************************************************************)
(* Properties                                                              *)
(***************************************************************************)
\* the operation of the last iteration found its struct and was matched to
\* the end: errors[cur] is the result of matching params against it
MatchEnded == pc \in {"apis", "report", "done"} /\ cur \in DOMAIN commands

\* the step taken is the iteration of line 152 for a parameter that finds its
\* field (ok at line 153)
PairStep ==
    /\ pc = "params"
    /\ pi <= Len(params)
    /\ pi' = pi + 1
    /\ params[pi].name \in DOMAIN fields[cur]

\* the serialized names of the exported fields of a struct
SerializedNames(s) ==
    {s[i].tag.json[1] :
        i \in {j \in 1..Len(s) :
                /\ Exported(s[j].name)
                /\ Len(s[j].tag.json) >= 1
                /\ s[j].tag.json[1] # ""
                /\ Len(s[j].tag.json) = 1 \/ s[j].tag.json = <<s[j].tag.json[1], "omitempty">>}}

\* the exported fields of a struct that have no serialized name
UntaggedNames(s) ==
    {s[i].name :
        i \in {j \in 1..Len(s) :
                /\ Exported(s[j].name)
                /\ SerializedNames(<<s[j]>>) = {}}}

ParamNames(ps) == {ps[i].name : i \in 1..Len(ps)}

\* the table of acceptable signatures, by category
Accepts(category, sig) ==
    CASE category = "short"   -> sig = <<"int16">>
      [] category = "integer" -> sig = <<"int">>
      [] category = "long"    -> sig = <<"int64">>
      [] category = "boolean" -> sig \in {<<"bool">>, <<"*", "bool">>}
      [] category = "tzdate"  -> sig = <<"string">>
      [] category \in {"list", "set"} -> Len(sig) >= 1 /\ sig[1] = "[]"
      [] category \in {"string", "uuid", "date", "map"} -> TRUE

\* C1: in detail mode, the selected name (the -cmd argument, or the override
\* type once lines 104-107 have put it in its place) being that of a struct,
\* the exit status is the number of keys of that struct's errors; it is 0
\* exactly when there are none, as when no operation matched the struct.
C1_DetailExitIsErrorCount ==
    (pc = "done" /\ loaded /\ cmd # "" /\ ToLower(cmd) \in DOMAIN commands) =>
        LET n == ToLower(cmd)
        IN  /\ exitCode = Cardinality(DOMAIN errors[n])
            /\ exitCode = 0 <=> errors[n] = <<>>
            /\ n \notin made => exitCode = 0

C1_Witness ==
    /\ pc = "done" /\ loaded /\ argCmd = "FOO" /\ rtype = ""
    /\ "foo" \in made
    /\ exitCode = 2
    /\ {errors["foo"][k].kind : k \in DOMAIN errors["foo"]} =
            {"MissingSerializedName", "MissingField"}

\* C2: with a command name C and an override type T, the errors reported
\* for T are those of matching T's struct against the response list of an
\* operation named C, whatever the document holds and in whatever order.
C2_OverrideUsesResponseOfCmd ==
    (/\ pc = "done" /\ loaded
     /\ rtype # ""
     /\ ToLower(rtype) \in DOMAIN commands
     /\ \E i \in 1..Len(apis) : ToLower(apis[i].name) = ToLower(argCmd)) =>
        \E i \in 1..Len(apis) :
            /\ ToLower(apis[i].name) = ToLower(argCmd)
            /\ errors[ToLower(rtype)] =
                    RunMatcher(commands[ToLower(rtype)].s, apis[i].response)

\* C3, as claimed: a parameter of a category outside the taxonomy that finds
\* its field leaves UnknownSpecCategory under its name, whatever the field's
\* omitempty and doc.
C3_UnknownAlwaysWins ==
    [][(PairStep /\ params[pi].type \notin KnownTypes) =>
        LET p == params[pi]
        IN  /\ p.name \in DOMAIN errors'[cur]
            /\ errors'[cur][p.name].kind = "UnknownSpecCategory"
            /\ errors'[cur][p.name].raw = p.type]_vars

\* C3, amended: a parameter of a category outside the taxonomy that finds a
\* field whose omitempty is the negation of required leaves
\* UnknownSpecCategory under its name, over any documentation finding.
C3_UnknownWinsWhenOptionalityAgrees ==
    [][(/\ PairStep
        /\ params[pi].type \notin KnownTypes
        /\ fields[cur][params[pi].name].OmitEmpty = ~params[pi].required) =>
        LET p == params[pi]
        IN  /\ p.name \in DOMAIN errors'[cur]
            /\ errors'[cur][p.name].kind = "UnknownSpecCategory"
            /\ errors'[cur][p.name].raw = p.type]_vars

C3_Witness ==
    /\ pc = "params" /\ pi = 2
    /\ Len(commands[cur].s) >= 1
    /\ params[1].type = "weirdtype"
    /\ params[1].description = "Zone name"
    /\ commands[cur].s[1].tag.doc = "The zone"
    /\ params[1].name \in DOMAIN errors[cur]
    /\ errors[cur][params[1].name].kind = "UnknownSpecCategory"

\* the optionality and type checks raise no finding for the pair
PairOtherwiseClean(p, field) ==
    /\ field.OmitEmpty = ~p.required
    /\ p.type \in KnownTypes
    /\ Accepts(p.type, field.Var.type)

\* C4, as claimed: for a pair the optionality and type checks accept, an
\* empty doc gives DocumentationMissing(description) for every description, a
\* doc that is not empty and differs gives DocumentationMismatch, and a doc
\* equal to the description records nothing.
C4_DocLawEveryDescription ==
    [][(PairStep /\ PairOtherwiseClean(params[pi], fields[cur][params[pi].name])) =>
        LET p     == params[pi]
            field == fields[cur][p.name]
        IN  /\ field.Doc = "" =>
                /\ p.name \in DOMAIN errors'[cur]
                /\ errors'[cur][p.name] =
                      [kind |-> "DocumentationMissing", want |-> p.description]
            /\ (field.Doc # "" /\ field.Doc # p.description) =>
                /\ p.name \in DOMAIN errors'[cur]
                /\ errors'[cur][p.name] =
                      [kind |-> "DocumentationMismatch", want |-> p.description,
                       got |-> field.Doc]
            /\ field.Doc = p.description => errors'[cur] = errors[cur]]_vars

\* C4, amended: DocumentationMissing(description) is recorded when the doc
\* is empty and the description is not; the rest as claimed.
C4_DocLaw ==
    [][(PairStep /\ PairOtherwiseClean(params[pi], fields[cur][params[pi].name])) =>
        LET p     == params[pi]
            field == fields[cur][p.name]
        IN  /\ (field.Doc = "" /\ p.description # "") =>
                /\ p.name \in DOMAIN errors'[cur]
                /\ errors'[cur][p.name] =
                      [kind |-> "DocumentationMissing", want |-> p.description]
            /\ (field.Doc # "" /\ field.Doc # p.description) =>
                /\ p.name \in DOMAIN errors'[cur]
                /\ errors'[cur][p.name] =
                      [kind |-> "DocumentationMismatch", want |-> p.description,
                       got |-> field.Doc]
            /\ field.Doc = p.description => errors'[cur] = errors[cur]]_vars

C4_Witness ==
    /\ pc = "params" /\ pi = 2
    /\ Len(commands[cur].s) >= 1
    /\ commands[cur].s[1].tag.doc = ""
    /\ params[1].name \in DOMAIN errors[cur]
    /\ errors[cur][params[1].name] =
            [kind |-> "DocumentationMissing", want |-> "Zone name"]

\* C5: for a parameter that finds its field, omitempty equal to required
\* leaves OptionalityMismatch under the name, whatever the signature and the
\* category (no type finding is recorded); omitempty equal to the negation of
\* required leaves no OptionalityMismatch.
C5_OptionalityLaw ==
    [][PairStep =>
        LET p     == params[pi]
            field == fields[cur][p.name]
        IN  IF field.OmitEmpty # ~p.required
            THEN /\ p.name \in DOMAIN errors'[cur]
                 /\ errors'[cur][p.name].kind = "OptionalityMismatch"
                 /\ errors'[cur][p.name].required = p.required
            ELSE \/ p.name \notin DOMAIN errors'[cur]
                 \/ errors'[cur][p.name].kind # "OptionalityMismatch"]_vars

C5_Witness ==
    /\ pc = "params" /\ pi = 2
    /\ Len(commands[cur].s) >= 1
    /\ params[1].type = "short" /\ params[1].required
    /\ commands[cur].s[1].type = <<"string">>
    /\ commands[cur].s[1].tag.json = <<"zone", "omitempty">>
    /\ params[1].name \in DOMAIN errors[cur]
    /\ errors[cur][params[1].name].kind = "OptionalityMismatch"

\* C6: for a parameter of the taxonomy that finds a field whose omitempty is
\* the negation of required, TypeMismatch is left under the name exactly when
\* the table does not accept the signature; a required short parameter with
\* another signature than int16 leaves TypeMismatch("int16", actual).
C6_TypeTable ==
    [][(/\ PairStep
        /\ params[pi].type \in KnownTypes
        /\ fields[cur][params[pi].name].OmitEmpty = ~params[pi].required) =>
        LET p   == params[pi]
            sig == fields[cur][p.name].Var.type
        IN  /\ (/\ p.name \in DOMAIN errors'[cur]
                /\ errors'[cur][p.name].kind = "TypeMismatch")
               <=> ~Accepts(p.type, sig)
            /\ (p.type = "short" /\ p.required /\ sig # <<"int16">>) =>
                errors'[cur][p.name] =
                    [kind |-> "TypeMismatch", expected |-> "int16", actual |-> sig]]_vars

C6_Witness ==
    /\ pc = "params" /\ pi = 2
    /\ Len(commands[cur].s) >= 1
    /\ params[1].type = "short" /\ params[1].required
    /\ params[1].name \in DOMAIN errors[cur]
    /\ errors[cur][params[1].name] =
            [kind |-> "TypeMismatch", expected |-> "int16", actual |-> <<"int64">>]

\* C7: once a parameter list is matched against a struct, the names that
\* carry ExtraField are the serialized names of the struct that are the name
\* of no parameter of the list.
C7_ExtraFieldsExact ==
    MatchEnded =>
        {k \in DOMAIN errors[cur] : errors[cur][k].kind = "ExtraField"} =
            SerializedNames(commands[cur].s) \ ParamNames(params)

C7_Witness ==
    /\ pc = "report" /\ cur \in DOMAIN commands
    /\ ParamNames(params) \cap SerializedNames(commands[cur].s) # {}
    /\ SerializedNames(commands[cur].s) \ ParamNames(params) # {}
    /\ \E k \in DOMAIN errors[cur] : errors[cur][k].kind = "ExtraField"

\* C8: the errors a struct has after an operation is matched against it are
\* those of one run of the matcher on that struct and that parameter list
\* alone, however often and against whatever the struct was matched before.
C8_MatchIsIdempotent ==
    MatchEnded => errors[cur] = RunMatcher(commands[cur].s, params)

C8_Witness ==
    /\ pc = "report" /\ rtype = ""
    /\ Len(apis) = 2 /\ apis[1] = apis[2]
    /\ cur = ToLower(apis[2].name) /\ cur \in DOMAIN commands
    /\ ParamNames(params) \cap SerializedNames(commands[cur].s) # {}
    /\ errors[cur] # <<>>

\* C9: in summary mode the exit status is 0 whatever was found, and every
\* line printed is that of a struct an operation matched.
C9_SummaryExitZero ==
    (pc = "done" /\ loaded /\ argCmd = "") =>
        /\ exitCode = 0
        /\ \A l \in out :
            /\ l.line = "summary"
            /\ \E n \in made : commands[n].name = l.name

C9_Witness ==
    /\ pc = "done" /\ loaded /\ argCmd = ""
    /\ \E l \in out : l.er >= 2
    /\ DOMAIN commands \ made # {}

\* C10: once a struct is matched, every exported field without a serialized
\* name has MissingSerializedName under its own name, and the findings of
\* the other kinds are counted next to these.
C10_MissingSerializedNameKept ==
    MatchEnded =>
        LET untagged == UntaggedNames(commands[cur].s)
        IN  /\ \A f \in untagged :
                /\ f \in DOMAIN errors[cur]
                /\ errors[cur][f] = [kind |-> "MissingSerializedName"]
            /\ Cardinality(DOMAIN errors[cur]) =
                  Cardinality(untagged)
                  + Cardinality({k \in DOMAIN errors[cur] :
                        errors[cur][k].kind # "MissingSerializedName"})

====
